---- MODULE Spec2Model ----
(***************************************************************************)
(* Model of video_to_pdf_by_sound.py: the click de-duplication function    *)
(* filter_final_clicks and the pipeline main() -> extract_audio,           *)
(* detect_click_times, filter_final_clicks, extract_images, images_to_pdf. *)
(*                                                                         *)
(* Time is counted in milliseconds: detect_click_times returns start/1000.0 *)
(* for integer millisecond starts, so every timestamp is a whole number of *)
(* milliseconds.  1.0 s is 1000, 0.6 s is 600, 0.1 s is 100.               *)
(***************************************************************************)
EXTENDS Integers, Sequences, FiniteSets, TLC

(* ---- bounds of the de-duplication check ---- *)
MaxLen == 4
MaxT == 4
MaxDelta == 2

(* ---- bounds of the pipeline check ---- *)
MaxRaw == 3
MaxRetries == 2
MaxStale == 2

(* ---- program constants ---- *)
Delta == 1000
PreOffset == 600
DelayStep == 100
TrailingOffset == 1000
PadWidth == 4

VARIABLES f_in, f_delta, f_out, f_out2, f_stage

VARIABLES pc, audio, extracted, folder, files, max_retries, raw_times,
          filtered_times, idx, retry, success, out_img, acquisitions,
          grabs, reports, pdf, saved, outcome, stale_at_start

VARIABLES n_indexes, n_sorted, n_stage

fvars == <<f_in, f_delta, f_out, f_out2, f_stage>>

pvars == <<pc, audio, extracted, folder, files, max_retries, raw_times,
           filtered_times, idx, retry, success, out_img, acquisitions,
           grabs, reports, pdf, saved, outcome, stale_at_start>>

nvars == <<n_indexes, n_sorted, n_stage>>

vars == <<fvars, nvars, pvars>>

Last(s) == s[Len(s)]

(* non-decreasing sequences over the set T of length at most n *)
IsNonDecreasing(s) == \A i \in 1..(Len(s) - 1) : s[i] <= s[i + 1]

OrderedSeqs(T, n) ==
  UNION {{s \in [1..k -> T] : IsNonDecreasing(s)} : k \in 0..n}

(* ---- filter_final_clicks, lines 30-48 ---- *)
filter_keep_first(time_stamps, delta) ==
  IF time_stamps = <<>> THEN <<>>
  ELSE LET RECURSIVE Loop(_, _, _)
           Loop(i, filtered, group) ==
             IF i > Len(time_stamps) THEN Append(filtered, group[1])
             ELSE LET current == time_stamps[i] IN
                  IF current - Last(group) <= delta
                  THEN Loop(i + 1, filtered, Append(group, current))
                  ELSE Loop(i + 1, Append(filtered, group[1]), <<current>>)
       IN Loop(2, <<>>, <<time_stamps[1]>>)

filter_fixed_window(time_stamps, delta) ==
  IF time_stamps = <<>> THEN <<>>
  ELSE LET RECURSIVE Loop(_, _, _)
           Loop(i, filtered, group) ==
             IF i > Len(time_stamps) THEN Append(filtered, Last(group))
             ELSE LET current == time_stamps[i] IN
                  IF current - group[1] <= delta
                  THEN Loop(i + 1, filtered, Append(group, current))
                  ELSE Loop(i + 1, Append(filtered, Last(group)), <<current>>)
       IN Loop(2, <<>>, <<time_stamps[1]>>)

filter_strict_gap(time_stamps, delta) ==
  IF time_stamps = <<>> THEN <<>>
  ELSE LET RECURSIVE Loop(_, _, _)
           Loop(i, filtered, group) ==
             IF i > Len(time_stamps) THEN Append(filtered, Last(group))
             ELSE LET current == time_stamps[i] IN
                  IF current - Last(group) < delta
                  THEN Loop(i + 1, filtered, Append(group, current))
                  ELSE Loop(i + 1, Append(filtered, Last(group)), <<current>>)
       IN Loop(2, <<>>, <<time_stamps[1]>>)

filter_emit_current(time_stamps, delta) ==
  IF time_stamps = <<>> THEN <<>>
  ELSE LET RECURSIVE Loop(_, _, _)
           Loop(i, filtered, group) ==
             IF i > Len(time_stamps) THEN Append(filtered, Last(group))
             ELSE LET current == time_stamps[i] IN
                  IF current - Last(group) <= delta
                  THEN Loop(i + 1, filtered, Append(group, current))
                  ELSE Loop(i + 1, Append(filtered, current), <<current>>)
       IN Loop(2, <<>>, <<time_stamps[1]>>)

filter_final_clicks(time_stamps, delta) ==
  IF time_stamps = <<>> THEN <<>>
  ELSE LET RECURSIVE Loop(_, _, _)
           Loop(i, filtered, group) ==
             IF i > Len(time_stamps) THEN Append(filtered, Last(group))
             ELSE LET current == time_stamps[i] IN
                  IF current - Last(group) <= delta
                  THEN Loop(i + 1, filtered, Append(group, current))
                  ELSE Loop(i + 1, Append(filtered, Last(group)), <<current>>)
       IN Loop(2, <<>>, <<time_stamps[1]>>)

(* ---- onset times the detector may return (milliseconds) ---- *)
(* 300 lies before the pre-roll, 1305 and 2305 are exactly Delta apart and *)
(* round at a tie, 3634 rounds down.                                       *)
Times == {300, 1305, 2305, 3634}

(* ---- file names, line 65 and line 85: f"{IMG_PREFIX}{n:04d}.png" ---- *)
RECURSIVE Digits(_)
Digits(n) == IF n < 10 THEN <<n>> ELSE Append(Digits(n \div 10), n % 10)

RECURSIVE ZeroPad(_, _)
ZeroPad(d, w) == IF Len(d) >= w THEN d ELSE ZeroPad(<<0>> \o d, w)

(* the characters after the common prefix "img": the digits, then "." which *)
(* sorts before every digit (written -1)                                    *)
ImgName(n) == Append(ZeroPad(Digits(n), PadWidth), -1)

RECURSIVE StrLess(_, _)
StrLess(a, b) ==
  IF b = <<>> THEN FALSE
  ELSE IF a = <<>> THEN TRUE
  ELSE IF Head(a) # Head(b) THEN Head(a) < Head(b)
  ELSE StrLess(Tail(a), Tail(b))

(* sorted(...) of line 108 applied to a set of image files *)
RECURSIVE SortedFiles(_)
SortedFiles(S) ==
  IF S = {} THEN <<>>
  ELSE LET m == CHOOSE f \in S :
                  \A g \in S \ {f} : StrLess(ImgName(f.index), ImgName(g.index))
       IN <<m>> \o SortedFiles(S \ {m})

Exists(n, F) == \E f \in F : f.index = n

(* ---- seek time, line 64 and line 89 ---- *)
(* round(x, 2): to the nearest 10 ms; at a tie the binary value of the     *)
(* float decides, so either neighbour can result                           *)
Round2(x) ==
  LET r == x % 10
  IN IF r < 5 THEN {x - r}
     ELSE IF r > 5 THEN {x - r + 10}
     ELSE {x - r, x - r + 10}

AdjustedT_unclamped(t, k) == Round2(t - PreOffset + k * DelayStep)

AdjustedT_next_step(t, k) ==
  {IF v > 0 THEN v ELSE 0 : v \in Round2(t - PreOffset + (k + 1) * DelayStep)}

AdjustedT(t, k) ==
  {IF v > 0 THEN v ELSE 0 : v \in Round2(t - PreOffset + k * DelayStep)}

(* ---- the pipeline, main() lines 119-136 ---- *)
StaleFiles == {[index |-> i, run |-> "previous"] : i \in 1..MaxStale}

Init ==
  /\ pc = "extract_audio"
  /\ audio \in {"absent", "stale"}
  /\ extracted = FALSE
  /\ folder \in BOOLEAN
  /\ files \in SUBSET StaleFiles
  /\ (~folder => files = {})
  /\ max_retries \in 0..MaxRetries
  /\ raw_times = <<>>
  /\ filtered_times = <<>>
  /\ idx = 0
  /\ retry = 0
  /\ success = FALSE
  /\ out_img = 0
  /\ acquisitions = <<>>
  /\ grabs = <<>>
  /\ reports = <<>>
  /\ pdf = <<>>
  /\ saved = FALSE
  /\ outcome = "running"
  /\ stale_at_start = (files # {})
  /\ n_indexes = {}
  /\ n_sorted = <<>>
  /\ n_stage = "idle"
  /\ f_in = <<>>
  /\ f_delta = 0
  /\ f_out = <<>>
  /\ f_out2 = <<>>
  /\ f_stage = "idle"

(* extract_audio, lines 13-16 (called at line 121): ffmpeg -y writes the    *)
(* audio file on success and leaves the file system alone on failure; the  *)
(* return code is not looked at                                             *)
ExtractAudio ==
  /\ pc = "extract_audio"
  /\ \E ok \in BOOLEAN :
       /\ extracted' = ok
       /\ audio' = IF ok THEN "fresh" ELSE audio
  /\ pc' = "detect"
  /\ UNCHANGED <<fvars, nvars, stale_at_start>>
  /\ UNCHANGED <<folder, files, max_retries, raw_times, filtered_times, idx,
                 retry, success, out_img, acquisitions, grabs, reports, pdf,
                 saved, outcome>>

(* detect_click_times, lines 18-28 (called at line 124): from_wav raises    *)
(* when the audio file is missing, and the exception ends main()            *)
DetectClickTimes ==
  /\ pc = "detect"
  /\ IF audio = "absent"
     THEN /\ pc' = "aborted"
          /\ outcome' = "HardFailure"
          /\ UNCHANGED raw_times
     ELSE /\ raw_times' \in OrderedSeqs(Times, MaxRaw)
          /\ pc' = "filter"
          /\ UNCHANGED outcome
  /\ UNCHANGED <<fvars, nvars, stale_at_start>>
  /\ UNCHANGED <<audio, extracted, folder, files, max_retries, filtered_times,
                 idx, retry, success, out_img, acquisitions, grabs, reports,
                 pdf, saved>>

(* line 128 *)
FilterClicks ==
  /\ pc = "filter"
  /\ filtered_times' = filter_final_clicks(raw_times, Delta)
  /\ pc' = "clear"
  /\ UNCHANGED <<fvars, nvars, stale_at_start>>
  /\ UNCHANGED <<audio, extracted, folder, files, max_retries, raw_times, idx,
                 retry, success, out_img, acquisitions, grabs, reports, pdf,
                 saved, outcome>>

ClearFolder_skipped ==
  /\ pc = "clear"
  /\ folder' = TRUE
  /\ idx' = 0
  /\ pc' = "for"
  /\ UNCHANGED <<fvars, nvars, stale_at_start>>
  /\ UNCHANGED <<audio, extracted, files, max_retries, raw_times,
                 filtered_times, retry, success, out_img, acquisitions, grabs,
                 reports, pdf, saved, outcome>>

(* extract_images, lines 53-59: create the folder or remove its .png files *)
ClearFolder ==
  /\ pc = "clear"
  /\ folder' = TRUE
  /\ files' = {}
  /\ idx' = 0
  /\ pc' = "for"
  /\ UNCHANGED <<fvars, nvars, stale_at_start>>
  /\ UNCHANGED <<audio, extracted, max_retries, raw_times, filtered_times,
                 retry, success, out_img, acquisitions, grabs, reports, pdf,
                 saved, outcome>>

(* lines 61-62: the next event, page idx + 1 *)
NextEvent ==
  /\ pc = "for"
  /\ idx < Len(filtered_times)
  /\ success' = FALSE
  /\ retry' = 0
  /\ acquisitions' = Append(acquisitions, idx + 1)
  /\ pc' = "retry"
  /\ UNCHANGED <<fvars, nvars, stale_at_start>>
  /\ UNCHANGED <<audio, extracted, folder, files, max_retries, raw_times,
                 filtered_times, idx, out_img, grabs, reports, pdf, saved,
                 outcome>>

(* one ffmpeg call and the test for its artifact *)
GrabAt(page, t, nextpc) ==
  \E adjusted_t \in AdjustedT(t, retry), produced \in BOOLEAN :
    LET written == IF produced
                   THEN {f \in files : f.index # page}
                          \cup {[index |-> page, run |-> "current"]}
                   ELSE files
    IN /\ out_img' = page
       /\ files' = written
       /\ grabs' = Append(grabs, [page |-> page, k |-> retry, target |-> t,
                                  seek |-> adjusted_t, ok |-> produced])
       /\ IF Exists(page, written)
          THEN /\ reports' = Append(reports, [page |-> page, kind |-> "success"])
               /\ success' = TRUE
               /\ retry' = 0
               /\ pc' = nextpc
          ELSE /\ retry' = retry + 1
               /\ UNCHANGED <<reports, success, pc>>

Grab_until_success ==
  /\ pc = "retry"
  /\ GrabAt(idx + 1, filtered_times[idx + 1], "for")
  /\ idx' = IF pc' = "for" THEN idx + 1 ELSE idx
  /\ UNCHANGED <<fvars, nvars, stale_at_start>>
  /\ UNCHANGED <<audio, extracted, folder, max_retries, raw_times,
                 filtered_times, acquisitions, pdf, saved, outcome>>

Grab_returns ==
  /\ pc = "retry"
  /\ retry < max_retries
  /\ GrabAt(idx + 1, filtered_times[idx + 1], "pdf")
  /\ idx' = IF pc' = "pdf" THEN idx + 1 ELSE idx
  /\ UNCHANGED <<fvars, nvars, stale_at_start>>
  /\ UNCHANGED <<audio, extracted, folder, max_retries, raw_times,
                 filtered_times, acquisitions, pdf, saved, outcome>>

Grab_zero_based ==
  /\ pc = "retry"
  /\ retry < max_retries
  /\ GrabAt(idx, filtered_times[idx + 1], "for")
  /\ idx' = IF pc' = "for" THEN idx + 1 ELSE idx
  /\ UNCHANGED <<fvars, nvars, stale_at_start>>
  /\ UNCHANGED <<audio, extracted, folder, max_retries, raw_times,
                 filtered_times, acquisitions, pdf, saved, outcome>>

(* lines 63-76: one pass of the retry loop for the event idx *)
Grab ==
  /\ pc = "retry"
  /\ retry < max_retries
  /\ GrabAt(idx + 1, filtered_times[idx + 1], "for")
  /\ idx' = IF pc' = "for" THEN idx + 1 ELSE idx
  /\ UNCHANGED <<fvars, nvars, stale_at_start>>
  /\ UNCHANGED <<audio, extracted, folder, max_retries, raw_times,
                 filtered_times, acquisitions, pdf, saved, outcome>>

ReportFailure_raises ==
  /\ pc = "retry"
  /\ retry = max_retries
  /\ ~success
  /\ pc' = "aborted"
  /\ outcome' = "FrameAcquisitionFailure"
  /\ retry' = 0
  /\ UNCHANGED <<fvars, nvars, stale_at_start>>
  /\ UNCHANGED <<audio, extracted, folder, files, max_retries, raw_times,
                 filtered_times, idx, success, out_img, acquisitions, grabs,
                 reports, pdf, saved>>

(* lines 78-79: the retries are used up; the message reads out_img, which   *)
(* is unbound when the retry loop never ran                                 *)
ReportFailure ==
  /\ pc = "retry"
  /\ retry = max_retries
  /\ ~success
  /\ IF out_img = 0
     THEN /\ pc' = "aborted"
          /\ outcome' = "UnboundLocalError"
          /\ UNCHANGED <<reports, idx>>
     ELSE /\ reports' = Append(reports, [page |-> out_img, kind |-> "failure"])
          /\ idx' = idx + 1
          /\ pc' = "for"
          /\ UNCHANGED outcome
  /\ retry' = 0
  /\ UNCHANGED <<fvars, nvars, stale_at_start>>
  /\ UNCHANGED <<audio, extracted, folder, files, max_retries, raw_times,
                 filtered_times, success, out_img, acquisitions, grabs, pdf,
                 saved>>

BeginTrailing_forgotten ==
  /\ pc = "for"
  /\ idx = Len(filtered_times)
  /\ filtered_times # <<>>
  /\ pc' = "pdf"
  /\ UNCHANGED <<fvars, nvars, stale_at_start>>
  /\ UNCHANGED <<audio, extracted, folder, files, max_retries, raw_times,
                 filtered_times, idx, retry, success, out_img, acquisitions,
                 grabs, reports, pdf, saved, outcome>>

(* lines 82-87: the page after the last event *)
BeginTrailing ==
  /\ pc = "for"
  /\ idx = Len(filtered_times)
  /\ filtered_times # <<>>
  /\ out_img' = Len(filtered_times) + 1
  /\ success' = FALSE
  /\ retry' = 0
  /\ acquisitions' = Append(acquisitions, Len(filtered_times) + 1)
  /\ pc' = "trailing"
  /\ UNCHANGED <<fvars, nvars, stale_at_start>>
  /\ UNCHANGED <<audio, extracted, folder, files, max_retries, raw_times,
                 filtered_times, idx, grabs, reports, pdf, saved, outcome>>

(* line 82 with an empty list: extract_images returns *)
SkipTrailing ==
  /\ pc = "for"
  /\ idx = Len(filtered_times)
  /\ filtered_times = <<>>
  /\ pc' = "pdf"
  /\ UNCHANGED <<fvars, nvars, stale_at_start>>
  /\ UNCHANGED <<audio, extracted, folder, files, max_retries, raw_times,
                 filtered_times, idx, retry, success, out_img, acquisitions,
                 grabs, reports, pdf, saved, outcome>>

TrailingGrab_at_last_event ==
  /\ pc = "trailing"
  /\ retry < max_retries
  /\ GrabAt(Len(filtered_times) + 1, Last(filtered_times), "pdf")
  /\ UNCHANGED <<fvars, nvars, stale_at_start>>
  /\ UNCHANGED <<audio, extracted, folder, max_retries, raw_times,
                 filtered_times, idx, acquisitions, pdf, saved, outcome>>

(* lines 88-100: one pass of the retry loop for the trailing page *)
TrailingGrab ==
  /\ pc = "trailing"
  /\ retry < max_retries
  /\ GrabAt(Len(filtered_times) + 1, Last(filtered_times) + TrailingOffset, "pdf")
  /\ UNCHANGED <<fvars, nvars, stale_at_start>>
  /\ UNCHANGED <<audio, extracted, folder, max_retries, raw_times,
                 filtered_times, idx, acquisitions, pdf, saved, outcome>>

(* lines 102-103 *)
TrailingFailure ==
  /\ pc = "trailing"
  /\ retry = max_retries
  /\ ~success
  /\ reports' = Append(reports, [page |-> out_img, kind |-> "failure"])
  /\ retry' = 0
  /\ pc' = "pdf"
  /\ UNCHANGED <<fvars, nvars, stale_at_start>>
  /\ UNCHANGED <<audio, extracted, folder, files, max_retries, raw_times,
                 filtered_times, idx, success, out_img, acquisitions, grabs,
                 pdf, saved, outcome>>

ImagesToPdf_unguarded ==
  /\ pc = "pdf"
  /\ pdf' = SortedFiles(files)
  /\ saved' = TRUE
  /\ outcome' = "Compiled"
  /\ pc' = "done"
  /\ UNCHANGED <<fvars, nvars, stale_at_start>>
  /\ UNCHANGED <<audio, extracted, folder, files, max_retries, raw_times,
                 filtered_times, idx, retry, success, out_img, acquisitions,
                 grabs, reports>>

(* images_to_pdf, lines 106-117 (called at line 136) *)
ImagesToPdf ==
  /\ pc = "pdf"
  /\ LET imgs == SortedFiles(files)
     IN IF imgs # <<>>
        THEN /\ pdf' = imgs
             /\ saved' = TRUE
             /\ outcome' = "Compiled"
        ELSE /\ outcome' = "EmptyResult"
             /\ UNCHANGED <<pdf, saved>>
  /\ pc' = "done"
  /\ UNCHANGED <<fvars, nvars, stale_at_start>>
  /\ UNCHANGED <<audio, extracted, folder, files, max_retries, raw_times,
                 filtered_times, idx, retry, success, out_img, acquisitions,
                 grabs, reports>>

Next ==
  \/ ExtractAudio
  \/ DetectClickTimes
  \/ FilterClicks
  \/ ClearFolder
  \/ NextEvent
  \/ Grab
  \/ ReportFailure
  \/ BeginTrailing
  \/ SkipTrailing
  \/ TrailingGrab
  \/ TrailingFailure
  \/ ImagesToPdf

Spec == Init /\ [][Next]_vars

(* ---- the de-duplication function applied to bounded ordered inputs ---- *)
ExampleInput == <<500, 600, 650, 3000, 3050, 6000>>

ExampleDelta == 1000

FilterInit ==
  /\ f_in \in OrderedSeqs(0..MaxT, MaxLen) \cup {ExampleInput}
  /\ f_delta \in (0..MaxDelta) \cup {ExampleDelta}
  /\ f_out = <<>>
  /\ f_out2 = <<>>
  /\ f_stage = "input"
  /\ pc = "idle"
  /\ audio = "absent"
  /\ extracted = FALSE
  /\ folder = FALSE
  /\ files = {}
  /\ max_retries = 0
  /\ raw_times = <<>>
  /\ filtered_times = <<>>
  /\ idx = 0
  /\ retry = 0
  /\ success = FALSE
  /\ out_img = 0
  /\ acquisitions = <<>>
  /\ grabs = <<>>
  /\ reports = <<>>
  /\ pdf = <<>>
  /\ saved = FALSE
  /\ outcome = "idle"
  /\ stale_at_start = FALSE
  /\ n_indexes = {}
  /\ n_sorted = <<>>
  /\ n_stage = "idle"

FilterOnce ==
  /\ f_stage = "input"
  /\ f_out' = filter_final_clicks(f_in, f_delta)
  /\ f_stage' = "once"
  /\ UNCHANGED <<f_in, f_delta, f_out2, nvars, pvars>>

FilterAgain ==
  /\ f_stage = "once"
  /\ f_out2' = filter_final_clicks(f_out, f_delta)
  /\ f_stage' = "twice"
  /\ UNCHANGED <<f_in, f_delta, f_out, nvars, pvars>>

FilterNext == FilterOnce \/ FilterAgain

SpecFilter == FilterInit /\ [][FilterNext]_vars

(* ---- the listing of images_to_pdf applied to bounded sets of pages ---- *)
MaxFiles == 3

(* page numbers around the points where the number of digits changes *)
PageNumbers == {1, 2, 10, 999, 1000, 1001, 9999, 10000, 10001}

NamesInit ==
  /\ n_indexes \in {S \in SUBSET PageNumbers : Cardinality(S) <= MaxFiles}
  /\ n_sorted = <<>>
  /\ n_stage = "written"
  /\ f_in = <<>>
  /\ f_delta = 0
  /\ f_out = <<>>
  /\ f_out2 = <<>>
  /\ f_stage = "idle"
  /\ pc = "idle"
  /\ audio = "absent"
  /\ extracted = FALSE
  /\ folder = FALSE
  /\ files = {}
  /\ max_retries = 0
  /\ raw_times = <<>>
  /\ filtered_times = <<>>
  /\ idx = 0
  /\ retry = 0
  /\ success = FALSE
  /\ out_img = 0
  /\ acquisitions = <<>>
  /\ grabs = <<>>
  /\ reports = <<>>
  /\ pdf = <<>>
  /\ saved = FALSE
  /\ outcome = "idle"
  /\ stale_at_start = FALSE

(* line 108: the files img<n>.png of the pages n_indexes, sorted by name *)
ListSorted ==
  /\ n_stage = "written"
  /\ n_sorted' = SortedFiles({[index |-> i, run |-> "current"] : i \in n_indexes})
  /\ n_stage' = "sorted"
  /\ UNCHANGED <<n_indexes, fvars, pvars>>

NamesNext == ListSorted

SpecNames == NamesInit /\ [][NamesNext]_vars

(* ---- claims about filter_final_clicks ---- *)

(* positions of the input that end a chained group: the last position, or  *)
(* one whose successor is more than delta later                            *)
GroupEnds(s, delta) ==
  {i \in 1..Len(s) : i = Len(s) \/ s[i + 1] - s[i] > delta}

RECURSIVE PickEnds(_, _, _)
PickEnds(s, ends, i) ==
  IF i > Len(s) THEN <<>>
  ELSE IF i \in ends THEN <<s[i]>> \o PickEnds(s, ends, i + 1)
       ELSE PickEnds(s, ends, i + 1)

(* C1: the result is exactly the last member of every maximal chained run   *)
(* (each member within delta of its predecessor); the documented example    *)
(* gives <<650, 3050, 6000>>, the empty input gives the empty output and a  *)
(* single timestamp gives itself.                                           *)
C1_LastOfEachGroup ==
  f_stage # "input" =>
    /\ f_out = PickEnds(f_in, GroupEnds(f_in, f_delta), 1)
    /\ (f_in = ExampleInput /\ f_delta = ExampleDelta) => f_out = <<650, 3050, 6000>>
    /\ f_in = <<>> => f_out = <<>>
    /\ Len(f_in) = 1 => f_out = f_in

C1_Witness ==
  /\ f_stage = "once"
  /\ f_in = ExampleInput
  /\ f_delta = ExampleDelta
  /\ f_out = <<650, 3050, 6000>>

(* C2: filtering the filtered sequence again with the same delta changes    *)
(* nothing.                                                                 *)
C2_Idempotent == f_stage = "twice" => f_out2 = f_out

C2_Witness ==
  /\ f_stage = "twice"
  /\ Len(f_out) >= 2
  /\ Len(f_out) < Len(f_in)
  /\ f_out2 = f_out

(* C3: consecutive outputs are more than delta apart; a gap of exactly      *)
(* delta never survives.                                                    *)
C3_GapsExceedDelta ==
  f_stage # "input" =>
    \A i \in 1..(Len(f_out) - 1) : f_out[i + 1] - f_out[i] > f_delta

C3_Witness ==
  /\ f_stage = "once"
  /\ f_delta >= 1
  /\ Len(f_out) >= 2
  /\ \E i \in 1..(Len(f_in) - 1) : f_in[i + 1] - f_in[i] = f_delta
  /\ \E i \in 1..(Len(f_out) - 1) : f_out[i + 1] - f_out[i] = f_delta + 1

RECURSIVE IsSubseq(_, _)
IsSubseq(a, b) ==
  IF a = <<>> THEN TRUE
  ELSE IF b = <<>> THEN FALSE
  ELSE IF Head(a) = Head(b) THEN IsSubseq(Tail(a), Tail(b))
  ELSE IsSubseq(a, Tail(b))

(* C4: the output is a subsequence of the input, no longer than the input,  *)
(* and non-decreasing.                                                      *)
C4_OrderedSubsequence ==
  f_stage # "input" =>
    /\ IsSubseq(f_out, f_in)
    /\ Len(f_out) <= Len(f_in)
    /\ IsNonDecreasing(f_out)

C4_Witness ==
  /\ f_stage = "once"
  /\ Len(f_in) = 4
  /\ Len(f_out) = 2
  /\ f_out[1] < f_out[2]

(* ---- claims about the frame locator and the page sequencer ---- *)
NumEvents == Len(filtered_times)

GrabsFor(p) == SelectSeq(grabs, LAMBDA g : g.page = p)

AllFailed(p) == \A i \in 1..Len(grabs) : grabs[i].page = p => ~grabs[i].ok

Succeeded(p) == \E i \in 1..Len(grabs) : grabs[i].page = p /\ grabs[i].ok

Reported(p, kind) ==
  \E i \in 1..Len(reports) : reports[i] = [page |-> p, kind |-> kind]

TargetOf(p) ==
  IF p <= NumEvents THEN filtered_times[p]
  ELSE Last(filtered_times) + TrailingOffset

Max0(x) == IF x > 0 THEN x ELSE 0

Dist(a, b) == IF a >= b THEN a - b ELSE b - a

(* C5: no page gets more than max_retries grab calls, no grab call seeks to *)
(* a negative time, and a target of 0.3 s is first sought at 0.0 s.         *)
C5_BoundedNonNegativeGrabs ==
  /\ \A i \in 1..Len(grabs) :
       /\ grabs[i].page \in 1..(NumEvents + 1)
       /\ grabs[i].seek >= 0
       /\ (grabs[i].target = 300 /\ grabs[i].k = 0) => grabs[i].seek = 0
  /\ \A p \in 1..(NumEvents + 1) : Len(GrabsFor(p)) <= max_retries

C5_Witness ==
  /\ pc = "done"
  /\ max_retries = 2
  /\ \E p \in 1..(NumEvents + 1) : Len(GrabsFor(p)) = max_retries /\ AllFailed(p)
  /\ \E i \in 1..Len(grabs) :
       grabs[i].target = 300 /\ grabs[i].k = 0 /\ grabs[i].seek = 0

(* C6 as stated: the k-th grab call for the target t seeks exactly to       *)
(* max(0, t - pre_offset + k * delay_step).                                 *)
C6_ExactSeek ==
  \A i \in 1..Len(grabs) :
    grabs[i].seek = Max0(grabs[i].target - PreOffset + grabs[i].k * DelayStep)

(* C6 amended: the k-th grab call for the target t seeks to                 *)
(* max(0, round(t - pre_offset + k * delay_step, 2)), a whole number of     *)
(* hundredths of a second at most 5 ms from the unrounded time; the k-th    *)
(* call follows k failed calls for the same page, and no call follows a     *)
(* call that produced the image.                                            *)
C6_RoundedSeekInOrder ==
  \A i \in 1..Len(grabs) :
    LET g == grabs[i]
        earlier == {j \in 1..(i - 1) : grabs[j].page = g.page}
    IN /\ g.target = TargetOf(g.page)
       /\ g.seek % 10 = 0
       /\ Dist(g.seek, Max0(g.target - PreOffset + g.k * DelayStep)) <= 5
       /\ g.k = Cardinality(earlier)
       /\ \A j \in earlier : ~grabs[j].ok

C6_Witness ==
  /\ max_retries = 2
  /\ \E i \in 1..Len(grabs) :
       /\ grabs[i].target = 3634
       /\ grabs[i].k = 1
       /\ grabs[i].seek = 3130
       /\ grabs[i].ok
  /\ \E i \in 1..Len(grabs) : grabs[i].target = 1305 /\ grabs[i].seek = 710

C8_EmptyResultNoCompositor ==
  /\ (pc = "done" /\ files = {}) =>
       (outcome = "EmptyResult" /\ ~saved /\ pdf = <<>>)
  /\ saved => files # {}

C8_Witness ==
  /\ pc = "done"
  /\ NumEvents = 2
  /\ max_retries = 2
  /\ Len(grabs) = 6
  /\ files = {}
  /\ outcome = "EmptyResult"
  /\ ~saved

(* C9: with max_retries >= 1 the run never aborts once acquisition has      *)
(* begun; a page whose grabs all failed is reported as a failure, the       *)
(* later pages and the trailing page are still acquired, and the compositor *)
(* receives exactly the pages whose acquisition succeeded.                  *)
C9_FailureIsSkippedNotFatal ==
  max_retries >= 1 =>
    /\ pc = "aborted" => (acquisitions = <<>> /\ grabs = <<>>)
    /\ pc \in {"pdf", "done"} =>
         \A p \in 1..Len(acquisitions) :
           /\ AllFailed(p) <=> Reported(p, "failure")
           /\ AllFailed(p) => Len(acquisitions) = NumEvents + 1
    /\ saved =>
         /\ {pdf[i].index : i \in 1..Len(pdf)} =
              {p \in 1..(NumEvents + 1) : Succeeded(p)}
         /\ Len(pdf) = Cardinality({p \in 1..(NumEvents + 1) : Succeeded(p)})

C9_Witness ==
  /\ pc = "done"
  /\ max_retries = 2
  /\ NumEvents = 2
  /\ AllFailed(1)
  /\ Len(GrabsFor(1)) = 2
  /\ Reported(1, "failure")
  /\ saved
  /\ pdf = <<[index |-> 2, run |-> "current"], [index |-> 3, run |-> "current"]>>

(* C10: after a failed audio extraction the run aborts: detection is the    *)
(* last step, no frame grab is issued and the compositor is not invoked,    *)
(* whatever the file system held at the start.                              *)
C10_FailedExtractionAborts ==
  (pc # "extract_audio" /\ ~extracted) =>
    /\ pc \in {"detect", "aborted"}
    /\ filtered_times = <<>>
    /\ grabs = <<>>
    /\ ~saved

(* C11: whatever image files the folder held at the start, none of them is  *)
(* left once the first grab is issued or the folder is listed for the       *)
(* compositor, also when there is no page event; every image the compositor *)
(* receives was written by a grab of this run.                              *)
C11_NoStaleFrame ==
  /\ (grabs # <<>> \/ pc \in {"for", "retry", "trailing", "pdf", "done"}) =>
       \A f \in files : f.run = "current" /\ Succeeded(f.index)
  /\ \A i \in 1..Len(pdf) : pdf[i].run = "current" /\ Succeeded(pdf[i].index)
  /\ (pc \in {"pdf", "done"} /\ filtered_times = <<>>) => files = {}

C11_Witness ==
  /\ stale_at_start
  /\ pc = "done"
  /\ saved
  /\ NumEvents = 1
  /\ AllFailed(1)
  /\ pdf = <<[index |-> 2, run |-> "current"]>>

(* C12: the images reach the compositor in strictly increasing page index,  *)
(* for every number of pages: sorting the file names agrees with the        *)
(* numeric order of the indexes.                                            *)
C12_SortedByIndex ==
  n_stage = "sorted" =>
    /\ Len(n_sorted) = Cardinality(n_indexes)
    /\ \A i \in 1..Len(n_sorted) : \A j \in 1..Len(n_sorted) :
         i < j => n_sorted[i].index < n_sorted[j].index

FileIndexes == {f.index : f \in files}

(* C13 as stated: when acquisition has ended the indexes of the image files *)
(* are exactly 1 .. k for some k, whatever the grabs did.                   *)
C13_DenseFromOne ==
  pc \in {"pdf", "done"} =>
    \E k \in 0..(NumEvents + 1) : FileIndexes = 1..k

(* C13 amended: when acquisition has ended there is one image file per page *)
(* whose acquisition succeeded, numbered with its page index in 1 .. N + 1; *)
(* the numbering is 1 .. k without a gap when no page failed before a       *)
(* later page succeeded.                                                    *)
C13_NumberedByPage ==
  pc \in {"pdf", "done"} =>
    /\ FileIndexes = {p \in 1..(NumEvents + 1) : Succeeded(p)}
    /\ Cardinality(files) = Cardinality(FileIndexes)
    /\ (\A p \in FileIndexes : \A q \in 1..(p - 1) : Succeeded(q)) =>
         \E k \in 0..(NumEvents + 1) : FileIndexes = 1..k

C13_Witness ==
  /\ pc = "done"
  /\ NumEvents = 2
  /\ FileIndexes = {1, 3}
  /\ Reported(2, "failure")

(* the stage of section 4.4 the run is in: 0 INIT, 1 AUDIO_EXTRACTED,       *)
(* 2 EVENTS_DETECTED, 3 EVENTS_DEDUPED (acquisition under way),             *)
(* 4 IMAGES_ACQUIRED, 5 COMPILED or ended without images                    *)
StageOf(p) ==
  CASE p = "extract_audio" -> 0
    [] p = "detect" -> 1
    [] p = "filter" -> 2
    [] p \in {"clear", "for", "retry", "trailing"} -> 3
    [] p = "pdf" -> 4
    [] p = "done" -> 5
    [] OTHER -> 6

StageStep ==
  \/ pc' = "aborted"
  \/ /\ pc # "aborted"
     /\ StageOf(pc') \in {StageOf(pc), StageOf(pc) + 1}

AnyReport(p) == Reported(p, "success") \/ Reported(p, "failure")

(* C14: every step stays in its stage or moves to the next one (or aborts   *)
(* the run); a frame grab is issued only once the de-duplicated list is     *)
(* there, and the compositor is invoked only after every event page and     *)
(* the trailing page has been reported as acquired or failed.               *)
C14_StagesInOrder ==
  /\ [][StageStep]_vars
  /\ [](grabs # <<>> =>
          (StageOf(pc) >= 3 /\ filtered_times # <<>>
             /\ filtered_times = filter_final_clicks(raw_times, Delta)))
  /\ [](saved =>
          (pc = "done" /\ \A p \in 1..(NumEvents + 1) : AnyReport(p)))
  /\ [](StageOf(pc) \in {4, 5} =>
          \A i \in 1..Len(acquisitions) : AnyReport(acquisitions[i]))

C14_Witness ==
  /\ pc = "done"
  /\ saved
  /\ NumEvents = 2
  /\ Len(reports) = 3
  /\ Reported(2, "failure")

TrailingPage == NumEvents + 1

TrailingStarted ==
  \E i \in 1..Len(acquisitions) : acquisitions[i] = TrailingPage

ReportsOf(p) == {j \in 1..Len(reports) : reports[j].page = p}

(* an acquisition has ended when a later one has begun or the run has left  *)
(* the acquisition stage                                                    *)
AcquisitionEnded(i) ==
  i < Len(acquisitions) \/ pc \in {"pdf", "done", "aborted"}

(* C16: every acquisition that has ended has exactly one report for its     *)
(* page: success exactly when the image file of the page exists, failure    *)
(* exactly when all max_retries grabs left it absent.                       *)
C16_ExactlyOneReport ==
  \A i \in 1..Len(acquisitions) :
    LET p == acquisitions[i]
    IN AcquisitionEnded(i) =>
         /\ Cardinality(ReportsOf(p)) = 1
         /\ Reported(p, "success") <=> Exists(p, files)
         /\ Reported(p, "failure") <=>
              (~Exists(p, files) /\ Len(GrabsFor(p)) = max_retries)

(* C17: with max_retries = 0 and at least one page event no grab is issued, *)
(* the run does not abort, every page and the trailing page are reported    *)
(* as failed, and the run ends with the empty-result outcome.               *)
C17_ZeroRetriesCompletes ==
  (max_retries = 0 /\ NumEvents >= 1) =>
    /\ grabs = <<>>
    /\ pc # "aborted"
    /\ pc \in {"pdf", "done"} =>
         \A p \in 1..(NumEvents + 1) : Reported(p, "failure")
    /\ pc = "done" => outcome = "EmptyResult"

(* an upper bound on the number of steps the run can still take: each page *)
(* costs at most one step to begin, max_retries grabs and one report        *)
PageCost == max_retries + 2

StepsLeft ==
  CASE pc = "extract_audio" -> (MaxRaw + 1) * PageCost + 6
    [] pc = "detect" -> (MaxRaw + 1) * PageCost + 5
    [] pc = "filter" -> (Len(raw_times) + 1) * PageCost + 4
    [] pc = "clear" -> (NumEvents + 1) * PageCost + 3
    [] pc = "for" -> (NumEvents - idx + 1) * PageCost + 2
    [] pc = "retry" -> (NumEvents - idx) * PageCost + (max_retries - retry) + 3
    [] pc = "trailing" -> (max_retries - retry) + 2
    [] pc = "pdf" -> 1
    [] OTHER -> 0

(* C18: a run issues at most (N + 1) * max_retries grab calls; every step   *)
(* the program takes lowers a non-negative bound on the steps left, and a   *)
(* step is possible until the run has ended, compiled or with a reported    *)
(* terminal outcome: provided every external call returns, the run ends.    *)
(* (At "pdf" the only condition of ImagesToPdf is the position itself.)     *)
C18_Terminates ==
  /\ [](Len(grabs) <= (NumEvents + 1) * max_retries)
  /\ [](pc = "done" => outcome \in {"Compiled", "EmptyResult"})
  /\ [](pc = "aborted" => outcome \in {"HardFailure", "UnboundLocalError"})
  /\ [](StepsLeft >= 0)
  /\ [](pc \in {"extract_audio", "detect", "filter", "clear", "for",
                 "retry", "trailing"} => ENABLED Next)
  /\ [][StepsLeft' < StepsLeft]_vars

C18_Witness ==
  /\ pc = "done"
  /\ outcome = "Compiled"
  /\ NumEvents = 2
  /\ max_retries = 2
  /\ Len(grabs) = (NumEvents + 1) * max_retries
====
